---- MODULE Spec2Model ----
(***************************************************************************)
(* Model of SepeDataCleaner                                                *)
(* (src/dagster/municipality_analytics/utils/sepe_data_cleaner.py):        *)
(* the sheet router, the structural locator, the row extractors, the       *)
(* sheet validator, the file processor, the consolidation writer and the   *)
(* pipeline coordinator with its ThreadPoolExecutor workers.               *)
(*                                                                         *)
(* Text is a sequence of one-character strings, so that strip, startswith, *)
(* substring search and upper() are computed and not assumed.  A character *)
(* outside ASCII is written as its code point ("U+221A").                  *)
(***************************************************************************)
EXTENDS Integers, Sequences, FiniteSets, TLC

\* ------------------------------------------------------------------ text

LowerChars == <<"a","b","c","d","e","f","g","h","i","j","k","l","m",
                "n","o","p","q","r","s","t","u","v","w","x","y","z">>

UpperChars == <<"A","B","C","D","E","F","G","H","I","J","K","L","M",
                "N","O","P","Q","R","S","T","U","V","W","X","Y","Z">>

DigitChars == <<"0","1","2","3","4","5","6","7","8","9">>

IsAsciiLetter(c) ==
    \E i \in 1..26 : LowerChars[i] = c \/ UpperChars[i] = c

IsDigit(c) == \E i \in 1..10 : DigitChars[i] = c

DigitVal(c) == (CHOOSE i \in 1..10 : DigitChars[i] = c) - 1

UpperChar(c) ==
    IF \E i \in 1..26 : LowerChars[i] = c
    THEN UpperChars[CHOOSE i \in 1..26 : LowerChars[i] = c]
    ELSE c

Upper(s) == [i \in 1..Len(s) |-> UpperChar(s[i])]

StartsWith(s, p) ==
    /\ Len(s) >= Len(p)
    /\ \A i \in 1..Len(p) : s[i] = p[i]

\* Python's  sub in s
Contains(s, sub) ==
    \E k \in 0..(Len(s) - Len(sub)) :
        \A i \in 1..Len(sub) : s[k + i] = sub[i]

RECURSIVE LStrip(_)
LStrip(s) == IF s # <<>> /\ Head(s) = " " THEN LStrip(Tail(s)) ELSE s

RECURSIVE RStrip(_)
RStrip(s) ==
    IF s # <<>> /\ s[Len(s)] = " " THEN RStrip(SubSeq(s, 1, Len(s) - 1)) ELSE s

Strip(s) == RStrip(LStrip(s))

\* s[n:]
DropFirst(s, n) == SubSeq(s, n + 1, Len(s))

\* Python's  s.replace(old, new)  (all non-overlapping occurrences, left to right)
RECURSIVE Replace(_, _, _)
Replace(s, old, new) ==
    IF s = <<>> \/ old = <<>> THEN s
    ELSE IF StartsWith(s, old)
         THEN new \o Replace(DropFirst(s, Len(old)), old, new)
         ELSE <<Head(s)>> \o Replace(Tail(s), old, new)

\* the characters of s that are not in the set drop
RECURSIVE RemoveChars(_, _)
RemoveChars(s, drop) ==
    IF s = <<>> THEN <<>>
    ELSE IF Head(s) \in drop THEN RemoveChars(Tail(s), drop)
         ELSE <<Head(s)>> \o RemoveChars(Tail(s), drop)

\* value of a string of decimal digits
RECURSIVE DigitsValue(_)
DigitsValue(s) ==
    IF s = <<>> THEN 0
    ELSE 10 * DigitsValue(SubSeq(s, 1, Len(s) - 1)) + DigitVal(s[Len(s)])

IsDigits(s) == s # <<>> /\ \A i \in 1..Len(s) : IsDigit(s[i])


\* optional leading minus sign; surrounding blanks are accepted by the parser
IsIntText(s) ==
    LET t == Strip(s) IN
    \/ IsDigits(t)
    \/ t # <<>> /\ Head(t) = "-" /\ IsDigits(Tail(t))

IntTextValue(s) ==
    LET t == Strip(s) IN
    IF Head(t) = "-" THEN 0 - DigitsValue(Tail(t)) ELSE DigitsValue(t)

RECURSIVE NatText(_)
NatText(n) ==
    IF n < 10 THEN <<DigitChars[n + 1]>>
    ELSE NatText(n \div 10) \o <<DigitChars[(n % 10) + 1]>>

\* str(n)
IntText(n) == IF n < 0 THEN <<"-">> \o NatText(0 - n) ELSE NatText(n)

\* ---------------------------------------------------------- sheet router

province_mappings ==
    << << <<"A"," ","C","O","R","U","U+221A","U+00EB","A">>, <<"C","O","R","U","U+221A","U+00EB","A">> >>,
       << <<"C","O","R","U","U+221A","U+00EB","A"," ","A">>, <<"C","O","R","U","U+221A","U+00EB","A">> >>,
       << <<"S","T","A"," ","C","R","U","Z"," ","T","E","N","E","R",".">>,
          <<"S","A","N","T","A"," ","C","R","U","Z"," ","T","E","N","E","R","I","F","E">> >>,
       << <<"S","T","A","."," ","C","R","U","Z"," ","T","E","N","E","R",".">>,
          <<"S","A","N","T","A"," ","C","R","U","Z"," ","T","E","N","E","R","I","F","E">> >>,
       << <<"C","O","N","T","R","T","O","S"," ","L","U","G","O">>,
          <<"C","O","N","T","R","A","T","O","S"," ","L","U","G","O">> >> >>

\* the loop over province_mappings.items(), in insertion order
RECURSIVE ApplyMappings(_, _)
ApplyMappings(s, i) ==
    IF i > Len(province_mappings) THEN s
    ELSE ApplyMappings(
           IF Contains(s, province_mappings[i][1])
           THEN Replace(s, province_mappings[i][1], province_mappings[i][2])
           ELSE s,
           i + 1)

PARO_PREFIX == <<"P","A","R","O"," ">>

CONTRATOS_PREFIX == <<"C","O","N","T","R","A","T","O","S"," ">>

\* faulty variant: the category word is looked for anywhere in the name
clean_sheet_name_anywhere(sheet_name) ==
    LET s == ApplyMappings(Strip(sheet_name), 1) IN
    IF Contains(s, PARO_PREFIX)
    THEN [data_type |-> "unemployment", province |-> DropFirst(s, 5),
          clean |-> Strip(DropFirst(s, 5))]
    ELSE IF Contains(s, CONTRATOS_PREFIX)
    THEN [data_type |-> "contracts", province |-> DropFirst(s, 10),
          clean |-> Strip(DropFirst(s, 10))]
    ELSE [data_type |-> "unknown", province |-> s, clean |-> s]

\* (data_type, province_name, clean_province)
clean_sheet_name(sheet_name) ==
    LET s == ApplyMappings(Strip(sheet_name), 1) IN
    IF StartsWith(s, PARO_PREFIX)
    THEN [data_type |-> "unemployment", province |-> DropFirst(s, 5),
          clean |-> Strip(DropFirst(s, 5))]
    ELSE IF StartsWith(s, CONTRATOS_PREFIX)
    THEN [data_type |-> "contracts", province |-> DropFirst(s, 10),
          clean |-> Strip(DropFirst(s, 10))]
    ELSE [data_type |-> "unknown", province |-> s, clean |-> s]

RECURSIVE NormalizeChars(_)
NormalizeChars(s) ==
    IF s = <<>> THEN <<>>
    ELSE (IF Head(s) = " " \/ Head(s) = "/" THEN <<"_">>
          ELSE IF Head(s) = "." THEN <<>>
          ELSE <<Head(s)>>) \o NormalizeChars(Tail(s))

normalize_province_name(province) == Upper(NormalizeChars(province))

SpecialSheets ==
    { <<"P","O","R","T","A","D","A">>,
      <<"I","n","d","i","c","e">>,
      <<"N","O"," ","C","O","N","S","T","A"," ","M","U","N","I","C",".">> }

\* the pre-filter of process_file
IsRelevantSheet(s) ==
    /\ s \notin SpecialSheets
    /\ \/ Contains(s, <<"P","A","R","O">>)
       \/ Contains(s, <<"C","O","N","T","R","A","T","O","S">>)

\* ------------------------------------------------------------ cells, grids

NaN == [s |-> <<>>, k |-> "nan", v |-> 0]

Num(n) == [s |-> <<>>, k |-> "num", v |-> n]

Str(t) == [s |-> t, k |-> "str", v |-> 0]

\* astype(str) of one cell
CellStr(c) ==
    IF c.k = "str" THEN c.s
    ELSE IF c.k = "num" THEN IntText(c.v)
    ELSE <<"n","a","n">>

\* pd.to_numeric(..., errors='coerce') of one cell: a number or NaN
ToNumeric(c) ==
    IF c.k = "num" THEN c
    ELSE IF c.k = "str" /\ IsIntText(c.s) THEN Num(IntTextValue(c.s))
    ELSE NaN

\* a grid is [ncols, rows]; a row is <<column 0, column 1, column 2>>, the
\* third cell standing for the measure columns (total_* is column 2)
Grid(n, r) == [ncols |-> n, rows |-> r]

\* --------------------------------------------------- format classifier

SplitYear == 2012

\* faulty variant: the boundary year goes to the modern side
get_format_before(year) == IF year < SplitYear THEN "OLD" ELSE "NEW"

get_format_by_year(year) == IF year <= SplitYear THEN "OLD" ELSE "NEW"

\* ---------------------------------------------------- structural locator

HeadRows == 50

CodeThreshold == 1000

MinNameLen == 3

LocatorExclude ==
    { <<"T","O","T","A","L">>, <<"H","O","M","B","R","E","S">>,
      <<"M","U","J","E","R","E","S">>,
      <<"M","U","N","I","C","I","P","I","O","S">> }

Min(a, b) == IF a < b THEN a ELSE b

\* a located row is <<r>> (0-based), no row is <<>>
FirstRow(S) == IF S = {} THEN <<>> ELSE << (CHOOSE i \in S : \A j \in S : i <= j) - 1 >>

LocateOld(grid) ==
    IF grid.ncols > 1
    THEN FirstRow({ i \in 1..Min(HeadRows, Len(grid.rows)) :
                    LET c == grid.rows[i][2] IN
                    /\ c.k # "nan"
                    /\ Len(CellStr(c)) > MinNameLen
                    /\ \E j \in 1..Len(CellStr(c)) : IsAsciiLetter(CellStr(c)[j])
                    /\ Upper(CellStr(c)) \notin LocatorExclude })
    ELSE <<>>

\* faulty variant: the search is not limited to the head of the sheet
LocateNewAnyRow(grid) ==
    IF grid.ncols > 0
    THEN FirstRow({ i \in 1..Len(grid.rows) :
                    LET c == ToNumeric(grid.rows[i][1]) IN
                    c.k = "num" /\ c.v > CodeThreshold })
    ELSE <<>>

LocateNew(grid) ==
    IF grid.ncols > 0
    THEN FirstRow({ i \in 1..Min(HeadRows, Len(grid.rows)) :
                    LET c == ToNumeric(grid.rows[i][1]) IN
                    c.k = "num" /\ c.v > CodeThreshold })
    ELSE <<>>

\* the heuristic of detect_format_and_data_start, without its cache
Locate(grid, year) ==
    IF get_format_by_year(year) = "OLD" THEN LocateOld(grid) ELSE LocateNew(grid)


\* ----------------------------------------------------------- row extractors

header_keywords ==
    { <<"P","A","R","O"," ","R","E","G","I","S","T","R","A","D","O">>,
      <<"S","E","G","U+221A","U+00F6","N"," ","S","E","X","O">>,
      <<"E","D","A","D"," ","Y"," ","S","E","C","T","O","R">>,
      <<"M","U","N","I","C","I","P","I","O","S">>,
      <<"T","O","T","A","L">>,
      <<"H","O","M","B","R","E","S">>,
      <<"M","U","J","E","R","E","S">>,
      <<"S","E","C","T","O","R","E","S">>,
      <<"A","G","R","I","-">>,
      <<"I","N","D","U","S","-">>,
      <<"C","O","N","S","-">>,
      <<"C","O","N","T","R","A","T","O","S"," ","D","E"," ","T","R","A","B","A","J","O">>,
      <<"R","E","G","I","S","T","R","A","D","O","S"," ","S","E","G","U+221A","U+00F6","N">>,
      <<"T","I","P","O"," ","D","E"," ","C","O","N","T","R","A","T","O">>,
      <<"I","N","I","C","."," ","I","N","D","E","F",".">>,
      <<"I","N","I","C","."," ","T","E","M","P","O","R","A","L">>,
      <<"C","O","N","V","E","R","T",".">> }

\* header_keywords_pattern, searched with re.IGNORECASE
HeaderMask(name) == \E kw \in header_keywords : Contains(Upper(name), Upper(kw))

\* str.contains(province, case=False)
ProvinceMask(name, province) == Contains(Upper(name), Upper(province))

UnemploymentWidth == 14

ContractsWidth == 13

VeryOldWidth == 17

VeryOldYear == 2007

NewWidth(data_type) ==
    IF data_type = "unemployment" THEN UnemploymentWidth ELSE ContractsWidth

\* len(unemployment_columns_old) / len(contracts_columns_old)
OldWidth(data_type, year) ==
    IF data_type = "unemployment"
    THEN (IF year <= VeryOldYear THEN VeryOldWidth ELSE UnemploymentWidth)
    ELSE ContractsWidth

\* faulty variant: the noise characters are left in place
CoerceKeepNoise(c, data_type) ==
    LET n == ToNumeric(Str(CellStr(c)))
    IN  IF n.k = "num" THEN n.v ELSE 0

\* the numeric cleaning of one measure value: the unemployment extractor
\* strips [<>], the contracts extractor strips [ <>] and maps '' to '0'
CoerceMeasure(c, data_type) ==
    LET t == IF data_type = "unemployment"
             THEN RemoveChars(CellStr(c), {"<", ">"})
             ELSE LET u == RemoveChars(CellStr(c), {" ", "<", ">"})
                  IN  IF u = <<>> THEN <<"0">> ELSE u
        n == ToNumeric(Str(t))
    IN  IF n.k = "num" THEN n.v ELSE 0

\* astype(int) of one identifier cell succeeds
CanInt(c) == c.k = "num" \/ (c.k = "str" /\ IsIntText(c.s))

\* faulty variant: the identifier read is dropped for the placeholder
IntOfPlaceholder(c) == 0

IntOf(c) == IF c.k = "num" THEN c.v ELSE IntTextValue(c.s)

\* df.iloc[start:]
RowsFrom(grid, start) == SubSeq(grid.rows, start + 1, Len(grid.rows))

\* pd.DataFrame()
EmptyFrame == [rows |-> <<>>, kind |-> "table", nmeas |-> 0]

Raised == [rows |-> <<>>, kind |-> "raise", nmeas |-> 0]

ExtractNew(grid, start, data_type) ==
    LET NotNa(r) == r[1].k # "nan"
        kept == SelectSeq(RowsFrom(grid, start), NotNa)
    IN  IF grid.ncols = 0 THEN Raised
        ELSE IF grid.ncols < NewWidth(data_type) THEN EmptyFrame
        ELSE IF \E i \in 1..Len(kept) : ~CanInt(kept[i][1]) THEN Raised
        ELSE [rows |-> [i \in 1..Len(kept) |->
                          [municipality_code |-> IntOf(kept[i][1]),
                           municipality_name |-> Strip(CellStr(kept[i][2])),
                           total |-> CoerceMeasure(kept[i][3], data_type)]],
              kind |-> "table",
              nmeas |-> NewWidth(data_type) - 2]

ExtractOld(grid, start, province, data_type, year) ==
    LET Named(r) == r[2].k # "nan" /\ Len(CellStr(r[2])) > MinNameLen
        NotHeader(r) == ~(HeaderMask(CellStr(r[2])) \/ ProvinceMask(CellStr(r[2]), province))
        named == SelectSeq(RowsFrom(grid, start), Named)
        kept == SelectSeq(named, NotHeader)
        \* the first Min(ncols, expected_columns) names of the older list are
        \* applied; the measures kept are those of them in final_columns
        nmeas == Min(Min(grid.ncols, OldWidth(data_type, year)), NewWidth(data_type)) - 2
    IN  IF grid.ncols < 2 THEN Raised
        ELSE [rows |-> [i \in 1..Len(kept) |->
                          [municipality_code |-> 0,
                           municipality_name |-> Strip(CellStr(kept[i][2])),
                           total |-> IF nmeas > 0
                                     THEN CoerceMeasure(kept[i][3], data_type)
                                     ELSE 0]],
              kind |-> "table",
              nmeas |-> nmeas]

\* parse_unemployment_sheet / parse_contracts_sheet after the locator has
\* answered start (<<>> for None)
ExtractWith(grid, start, province, data_type, year) ==
    IF start = <<>> THEN EmptyFrame
    ELSE IF get_format_by_year(year) = "NEW"
    THEN ExtractNew(grid, start[1], data_type)
    ELSE ExtractOld(grid, start[1], province, data_type, year)

\* -------------------------------------------------------- sheet validator

HighUnemployment == 50000

HighContracts == 100000

\* the issues list of validate_parsed_data.  municipality_code and
\* municipality_name hold no NaN once an extractor has returned, so the two
\* isna() checks never add an issue.
validate_parsed_data(t, data_type, year) ==
    LET Has(P(_)) == \E i \in 1..Len(t.rows) : P(t.rows[i])
        Zero(r) == r.municipality_code = 0
        Neg(r)  == r.total < 0
        High(r) == r.total > (IF data_type = "unemployment"
                              THEN HighUnemployment ELSE HighContracts)
    IN  (IF year > SplitYear /\ Has(Zero) THEN <<"placeholder_codes">> ELSE <<>>)
        \o (IF t.nmeas > 0 /\ Has(Neg) THEN <<"negative_values">> ELSE <<>>)
        \o (IF t.nmeas > 0 /\ Has(High) THEN <<"high_values">> ELSE <<>>)


\* ------------------------------------------------------------ file names

\* s.split(sep) for a one-character separator
RECURSIVE Split(_, _)
Split(s, sep) ==
    IF \E i \in 1..Len(s) : s[i] = sep
    THEN LET k == CHOOSE i \in 1..Len(s) : s[i] = sep /\ \A j \in 1..(i - 1) : s[j] # sep
         IN  <<SubSeq(s, 1, k - 1)>> \o Split(DropFirst(s, k), sep)
    ELSE <<s>>

DateParts(filename) == Split(Replace(filename, <<".","x","l","s">>, <<>>), "_")

\* extract_date_from_filename returns (does not raise)
DateOk(filename) ==
    LET parts == DateParts(filename) IN
    /\ Len(parts) >= 2
    /\ IsIntText(parts[1])
    /\ IsIntText(parts[2])

extract_date_from_filename(filename) ==
    LET parts == DateParts(filename) IN
    [year |-> IntTextValue(parts[1]), month |-> IntTextValue(parts[2])]

\* ------------------------------------------------- the raw input universe

Title == <<NaN, Str(<<"P","A","R","O"," ","R","E","G","I","S","T","R","A","D","O">>), NaN>>

Header == <<Str(<<"C","o","d","i","g","o">>), Str(<<"M","u","n","i","c","i","p","i","o">>), Str(<<"T","O","T","A","L">>)>>

\* modern sheet: one title row, one header row, two municipalities, a blank row
GridMadridParo ==
    Grid(UnemploymentWidth,
         << Title, Header,
            <<Num(28006), Str(<<"A","l","c","o","b","e","n","d","a","s">>), Num(5300)>>,
            <<Num(28065), Str(<<"G","e","t","a","f","e">>), Str(<<"<","5">>)>>,
            <<NaN, NaN, NaN>> >>)

GridMadridContratos ==
    Grid(ContractsWidth,
         << Title, Header,
            <<Num(28006), Str(<<"A","l","c","o","b","e","n","d","a","s">>), Num(410)>>,
            <<Num(28065), Str(<<"G","e","t","a","f","e">>), Str(<<" ">>)>> >>)

\* a modern sheet that holds a title and nothing else
GridNoData == Grid(UnemploymentWidth, << Title >>)

\* a modern contracts sheet whose data starts right under the header
GridShortContratos ==
    Grid(ContractsWidth,
         << Header,
            <<Num(28006), Str(<<"A","l","c","o","b","e","n","d","a","s">>), Num(395)>>,
            <<Num(28065), Str(<<"G","e","t","a","f","e">>), Num(120)>> >>)

\* older sheet: no identifier column
GridSevillaParo ==
    Grid(UnemploymentWidth,
         << <<NaN, Str(<<"M","U","N","I","C","I","P","I","O","S">>), Str(<<"T","O","T","A","L">>)>>,
            <<NaN, Str(<<"D","o","s"," ","H","e","r","m","a","n","a","s">>), Num(12000)>>,
            <<NaN, Str(<<"U","t","r","e","r","a">>), Num(60000)>>,
            <<NaN, Str(<<"T","O","T","A","L">>), Num(72000)>> >>)

GridSevillaContratos ==
    Grid(ContractsWidth,
         << <<NaN, Str(<<"M","U","N","I","C","I","P","I","O","S">>), Str(<<"T","O","T","A","L">>)>>,
            <<NaN, Str(<<"D","o","s"," ","H","e","r","m","a","n","a","s">>), Num(900)>> >>)

Sheet(n, c, x, g) == [grid |-> g, name |-> n, calamine |-> c, xlrd |-> x]

Cover == Sheet(<<"P","O","R","T","A","D","A">>, TRUE, TRUE, Grid(1, << Title >>))

\* the workbooks a raw directory may hold; sizeMB is st_size in MB
Files ==
    {"f2010_03", "f2013_01", "f2014_02", "f2015_07", "f2015_08", "f2016_01",
     "f2016_02", "notes"}

\* sorted(xls_files)
FileOrder ==
    <<"f2010_03", "f2013_01", "f2014_02", "f2015_07", "f2015_08", "f2016_01",
      "f2016_02", "notes">>

Workbook(n, o, mb, sh) == [name |-> n, openable |-> o, sizeMB |-> mb, sheets |-> sh]

FileOf(f) ==
    CASE f = "f2010_03" ->
           Workbook(<<"2","0","1","0","_","0","3","_","e","m","p","l","o","y","m","e","n","t",".","x","l","s">>, TRUE, 2,
                    << Sheet(<<"P","A","R","O"," ","S","E","V","I","L","L","A">>, FALSE, TRUE, GridSevillaParo),
                       Sheet(<<"C","O","N","T","R","A","T","O","S"," ","S","E","V","I","L","L","A">>, FALSE, FALSE, GridSevillaContratos) >>)
      [] f = "f2013_01" ->
           Workbook(<<"2","0","1","3","_","0","1","_","e","m","p","l","o","y","m","e","n","t",".","x","l","s">>, TRUE, 1,
                    << Cover,
                       Sheet(<<"P","A","R","O"," ","T","O","L","E","D","O">>, TRUE, TRUE, GridNoData),
                       Sheet(<<"C","O","N","T","R","A","T","O","S"," ","T","O","L","E","D","O">>, TRUE, TRUE, GridShortContratos) >>)
      [] f = "f2014_02" ->
           Workbook(<<"2","0","1","4","_","0","2","_","e","m","p","l","o","y","m","e","n","t",".","x","l","s">>, TRUE, 1, << Cover >>)
      [] f = "f2015_07" ->
           Workbook(<<"2","0","1","5","_","0","7","_","e","m","p","l","o","y","m","e","n","t",".","x","l","s">>, TRUE, 3,
                    << Cover,
                       Sheet(<<"P","A","R","O"," ","M","A","D","R","I","D">>, TRUE, TRUE, GridMadridParo),
                       Sheet(<<"C","O","N","T","R","A","T","O","S"," ","M","A","D","R","I","D">>, TRUE, TRUE, GridMadridContratos) >>)
      [] f = "f2015_08" ->
           Workbook(<<"2","0","1","5","_","0","8","_","e","m","p","l","o","y","m","e","n","t",".","x","l","s">>, TRUE, 3,
                    << Cover,
                       Sheet(<<"P","A","R","O"," ","M","A","D","R","I","D">>, FALSE, FALSE, GridMadridParo),
                       Sheet(<<"C","O","N","T","R","A","T","O","S"," ","M","A","D","R","I","D">>, TRUE, TRUE, GridShortContratos) >>)
      [] f = "f2016_01" ->
           Workbook(<<"2","0","1","6","_","0","1","_","e","m","p","l","o","y","m","e","n","t",".","x","l","s">>, TRUE, 1,
                    << Cover,
                       Sheet(<<"C","O","N","T","R","A","T","O","S"," ","M","A","D","R","I","D">>, TRUE, TRUE, GridMadridContratos) >>)
      [] f = "f2016_02" ->
           \* both spellings of one province in the same workbook
           Workbook(<<"2","0","1","6","_","0","2","_","e","m","p","l","o","y","m","e","n","t",".","x","l","s">>, TRUE, 1,
                    << Sheet(<<"C","O","N","T","R","A","T","O","S"," ","S","T","A"," ","C","R","U","Z"," ","T","E","N","E","R",".">>, TRUE, TRUE, GridMadridContratos),
                       Sheet(<<"C","O","N","T","R","A","T","O","S"," ","S","T","A","."," ","C","R","U","Z"," ","T","E","N","E","R",".">>, TRUE, TRUE, GridShortContratos) >>)
      [] OTHER ->
           Workbook(<<"n","o","t","e","s",".","x","l","s">>, TRUE, 1, << Cover >>)

DataTypes == <<"unemployment", "contracts">>

\* (year, month) of a file name; (0, 0) stands for the ValueError
DateOf(filename) ==
    IF DateOk(filename) THEN extract_date_from_filename(filename)
    ELSE [year |-> 0, month |-> 0]

\* every answer detect_format_and_data_start can give on a sheet of the
\* universe, None included
Starts ==
    {<<>>} \cup
    UNION { { Locate(FileOf(f).sheets[i].grid, DateOf(FileOf(f).name).year) :
              i \in 1..Len(FileOf(f).sheets) } : f \in Files }

\* what parse_*_sheet hands back to process_sheet_batch: x is the extraction,
\* the table carries the province/year/month/data_type columns added at the
\* end of the parser, issues is what validate_parsed_data finds in it
ParsedSheet(x, province, data_type, date) ==
    [kind |-> x.kind,
     table |-> [data_type |-> data_type, province |-> province, rows |-> x.rows,
                year |-> date.year, nmeas |-> x.nmeas, month |-> date.month],
     issues |-> validate_parsed_data(x, data_type, date.year)]

\* one relevant sheet as process_sheet_batch meets it: r is
\* clean_sheet_name(sheet_name); located is the locator's own answer on the
\* sheet; parsed[s] is the parser's answer when the locator (or its cache)
\* answers s
ScanSheet(sh, r, date) ==
    [data_type |-> r.data_type,
     province |-> r.clean,
     name |-> sh.name,
     calamine |-> sh.calamine,
     xlrd |-> sh.xlrd,
     special |-> sh.name \in SpecialSheets,
     key |-> normalize_province_name(r.clean),
     located |-> Locate(sh.grid, date.year),
     parsed |-> [s \in Starts |->
                   ParsedSheet(ExtractWith(sh.grid, s, r.clean, r.data_type, date.year),
                               r.clean, r.data_type, date)]]

\* relevant_sheets of process_file
Relevant(sheets) ==
    LET Rel(sh) == IsRelevantSheet(sh.name) IN SelectSeq(sheets, Rel)

ScanSheets(rel, date) ==
    [i \in 1..Len(rel) |-> ScanSheet(rel[i], clean_sheet_name(rel[i].name), date)]

\* a workbook of input_dir with what process_file reads from it
Scan(F, date) ==
    [year |-> date.year,
     name |-> F.name,
     month |-> date.month,
     openable |-> F.openable,
     sizeMB |-> F.sizeMB,
     dateOk |-> DateOk(F.name),
     relevant_sheets |-> ScanSheets(Relevant(F.sheets), date)]

Book(f) == Scan(FileOf(f), DateOf(FileOf(f).name))

\* cache_key = f"{year}_{format_type}_{province}"; format_type is a function
\* of year, so the key is the pair
CacheKey(w, sh) == <<w.year, sh.province>>

\* {year}_{month:02d}_{data_type}.csv
OutKey(w, d) == <<w.year, w.month, d>>

\* ------------------------------------------------------------------ bounds

MaxFiles == 2

MaxWorkers == 2

MaxRuns == 2

\* ------------------------------------------------------------------- state

VARIABLES
    inputDir,         \* the *.xls files of input_dir: file |-> workbook
    outDir,           \* output_dir: OutKey |-> the consolidated CSV
    errLog,           \* processing_errors.log, one entry per line written
    report,           \* processing_summary.txt exists
    force_reprocess,
    max_workers,
    processing_stats,
    format_cache,     \* self._format_cache: CacheKey |-> located start
    cpc,              \* where clean_all_files stands
    ctmp,             \* counter value read by the coordinator thread
    saved_files,      \* the dict clean_all_files returns
    task,             \* one future per queued file
    runs,             \* clean_all_files calls so far
    outDir0,          \* output_dir as the current call found it
    report_writes,    \* generate_processing_report calls of the current call
    call              \* the last call made on a helper of the cleaner by itself

vars == <<inputDir, outDir, errLog, report, force_reprocess, max_workers,
          processing_stats, format_cache, cpc, ctmp, saved_files, task, runs,
          outDir0, report_writes, call>>

StatNames ==
    {"files_processed", "files_failed", "sheets_processed", "sheets_failed",
     "engine_fallbacks", "data_quality_issues", "old_format_files",
     "new_format_files"}

ZeroStats == [k \in StatNames |-> 0]

\* an empty directory, an empty dict
Empty == [k \in {} |-> <<>>]

\* d[k] = v on a mapping
Put(d, k, v) == [x \in DOMAIN d \cup {k} |-> IF x = k THEN v ELSE d[x]]

\* results = {'unemployment': {}, 'contracts': {}}; a dict of tables is the
\* sequence of its items in insertion order
NoResults == [unemployment |-> <<>>, contracts |-> <<>>]

NoSaved == [unemployment |-> <<>>, contracts |-> <<>>]

NoTask ==
    [i |-> 0, start |-> <<>>, pc |-> "none", engine |-> "calamine", tmp |-> 0,
     truthy |-> FALSE, res |-> NoResults]

Event(kind, f, i) == [kind |-> kind, file |-> f, sheet |-> i]

\* d[key] = val
RECURSIVE DictPut(_, _, _)
DictPut(d, key, val) ==
    IF d = <<>> THEN << [key |-> key, val |-> val] >>
    ELSE IF Head(d).key = key THEN << [key |-> key, val |-> val] >> \o Tail(d)
    ELSE << Head(d) >> \o DictPut(Tail(d), key, val)

\* no helper has been called by itself
NoCall == [op |-> "none", arg |-> <<>>, ret |-> <<>>, memo |-> Empty]

Init ==
    /\ inputDir \in { [f \in S |-> Book(f)] :
                      S \in { T \in SUBSET Files : Cardinality(T) <= MaxFiles } }
    /\ outDir = Empty
    /\ errLog = <<>>
    /\ report = FALSE
    /\ force_reprocess \in BOOLEAN
    /\ max_workers \in 1..MaxWorkers
    /\ processing_stats = ZeroStats
    /\ format_cache = Empty
    /\ cpc = "idle"
    /\ ctmp = 0
    /\ saved_files = NoSaved
    /\ task = [f \in Files |-> NoTask]
    /\ runs = 0
    /\ outDir0 = Empty
    /\ report_writes = 0
    /\ call = NoCall

\* --------------------------------------------------- SepeDataCleaner()

\* a new cleaner over the same directories
NewCleaner ==
    /\ cpc \in {"idle", "returned"}
    /\ runs < MaxRuns
    /\ \E fr \in BOOLEAN, mw \in 1..MaxWorkers :
          /\ force_reprocess' = fr
          /\ max_workers' = mw
    /\ processing_stats' = ZeroStats
    /\ format_cache' = Empty
    /\ cpc' = "idle"
    /\ UNCHANGED <<inputDir, outDir, errLog, report, ctmp, saved_files, task,
                   runs, outDir0, report_writes,
                   call>>

\* ------------------------------------------------- clean_all_files, start

\* faulty variant: one existing output is taken for both
check_file_either_output(f) ==
    /\ inputDir[f].dateOk
    /\ \/ OutKey(inputDir[f], "unemployment") \in DOMAIN outDir
       \/ OutKey(inputDir[f], "contracts") \in DOMAIN outDir

check_file_already_processed(f) ==
    /\ inputDir[f].dateOk
    /\ OutKey(inputDir[f], "unemployment") \in DOMAIN outDir
    /\ OutKey(inputDir[f], "contracts") \in DOMAIN outDir

\* faulty variant: the flag is read the wrong way round
SkippedWhenForced(f) == force_reprocess /\ check_file_already_processed(f)

\* the filter of clean_all_files records the file as done and does not queue it
Skipped(f) == ~force_reprocess /\ check_file_already_processed(f)

InOrder(S) == LET In(f) == f \in S IN SelectSeq(FileOrder, In)

\* FILENAME_PARSE_ERROR lines of the calls of extract_date_from_filename made
\* before any worker starts: one per file in group_files_by_format, one more
\* per file in check_file_already_processed (not called when forcing)
RECURSIVE PreludeLog(_)
PreludeLog(fs) ==
    IF fs = <<>> THEN <<>>
    ELSE (IF inputDir[Head(fs)].dateOk THEN <<>>
          ELSE << Event("FILENAME_PARSE_ERROR", Head(fs), 0) >>)
         \o PreludeLog(Tail(fs))

\* saved_files[data_type] after the filter loop
RECURSIVE ExistingPaths(_, _)
ExistingPaths(fs, d) ==
    IF fs = <<>> THEN <<>>
    ELSE (IF Skipped(Head(fs)) /\ OutKey(inputDir[Head(fs)], d) \in DOMAIN outDir
          THEN << OutKey(inputDir[Head(fs)], d) >> ELSE <<>>)
         \o ExistingPaths(Tail(fs), d)

RunStart ==
    /\ cpc \in {"idle", "returned"}
    /\ runs < MaxRuns
    /\ runs' = runs + 1
    /\ outDir0' = outDir
    /\ report_writes' = 0
    /\ processing_stats' = ZeroStats
    /\ ctmp' = 0
    /\ IF DOMAIN inputDir = {}
       THEN /\ errLog' = <<>>
            /\ saved_files' = NoSaved
            /\ task' = [f \in Files |-> NoTask]
            /\ cpc' = "returned"
       ELSE /\ errLog' = PreludeLog(InOrder(DOMAIN inputDir))
                          \o (IF force_reprocess THEN <<>>
                              ELSE PreludeLog(InOrder(DOMAIN inputDir)))
            /\ saved_files' =
                 [unemployment |-> ExistingPaths(InOrder(DOMAIN inputDir), "unemployment"),
                  contracts |-> ExistingPaths(InOrder(DOMAIN inputDir), "contracts")]
            /\ task' = [f \in Files |->
                          IF f \in DOMAIN inputDir /\ ~Skipped(f)
                          THEN [NoTask EXCEPT !.pc = "queued"]
                          ELSE NoTask]
            /\ cpc' = IF \A f \in DOMAIN inputDir : Skipped(f)
                      THEN "returned" ELSE "loop"
    /\ UNCHANGED <<inputDir, outDir, report, force_reprocess, max_workers,
                   format_cache,
                   call>>

\* ------------------------------------------- process_file, on a pool thread

BatchSize == 10

SizeCeilingMB == 100

\* faulty variant: futures still waiting in the queue take up a pool thread
RunningOrQueued == { f \in Files : task[f].pc \notin {"none", "done", "collected"} }

\* the files a pool thread is working on
Running == { f \in Files : task[f].pc \notin {"none", "queued", "done", "collected"} }

Earlier(f) == { g \in Files : \E i, j \in 1..Len(FileOrder) :
                                 FileOrder[i] = g /\ FileOrder[j] = f /\ i < j }

Log(e) == errLog' = Append(errLog, e)

SetTask(f, t) == task' = [task EXCEPT ![f] = t]

Store(k, v) == processing_stats' = [processing_stats EXCEPT ![k] = v + 1]

\* the sheet a worker is at
SheetAt(f) == inputDir[f].relevant_sheets[task[f].i]

\* the loop of process_sheet_batch moves on; a new batch starts with the
\* engine get_optimal_engine returns
NextSheet(f, t) ==
    IF t.i < Len(inputDir[f].relevant_sheets)
    THEN [t EXCEPT !.pc = "sheet", !.i = t.i + 1,
                   !.engine = IF t.i % Min(BatchSize, Len(inputDir[f].relevant_sheets)) = 0
                              THEN "calamine" ELSE t.engine]
    ELSE [t EXCEPT !.pc = "finally", !.truthy = TRUE]

\* results[data_type][normalized_province] = parsed_df
PutResult(res, sh, tbl) ==
    [res EXCEPT ![sh.data_type] = DictPut(res[sh.data_type], sh.key, tbl)]

\* the sheet is in hand: detect_format_and_data_start looks into the cache
Detect(f, t) ==
    IF CacheKey(inputDir[f], SheetAt(f)) \in DOMAIN format_cache
    THEN [t EXCEPT !.pc = "extract",
                   !.start = format_cache[CacheKey(inputDir[f], SheetAt(f))]]
    ELSE [t EXCEPT !.pc = "cache_set", !.start = SheetAt(f).located]

StartFile(f) ==
    /\ cpc \in {"loop", "st_ff"}
    /\ task[f].pc = "queued"
    /\ \A g \in Earlier(f) : task[g].pc # "queued"
    /\ Cardinality(Running) < max_workers
    /\ IF inputDir[f].dateOk
       THEN /\ SetTask(f, [task[f] EXCEPT
                  !.pc = "st_fmt",
                  !.tmp = IF get_format_by_year(inputDir[f].year) = "OLD"
                          THEN processing_stats["old_format_files"]
                          ELSE processing_stats["new_format_files"]])
            /\ UNCHANGED errLog
       ELSE /\ errLog' = errLog \o << Event("FILENAME_PARSE_ERROR", f, 0),
                                      Event("FILE_PROCESSING_ERROR", f, 0) >>
            /\ SetTask(f, [task[f] EXCEPT !.pc = "st_badname",
                                          !.tmp = processing_stats["files_failed"]])
    /\ UNCHANGED <<inputDir, outDir, report, force_reprocess, max_workers,
                   processing_stats, format_cache, cpc, ctmp, saved_files, runs,
                   outDir0, report_writes,
                   call>>

\* shared by the steps of a worker that write one counter back
StoreStep(f, pc, k, t) ==
    /\ task[f].pc = pc
    /\ Store(k, task[f].tmp)
    /\ SetTask(f, t)
    /\ UNCHANGED <<inputDir, outDir, errLog, report, force_reprocess, max_workers,
                   format_cache, cpc, ctmp, saved_files, runs, outDir0,
                   report_writes,
                   call>>

\* shared by the steps of a worker that touch its own state, the log and
\* nothing else
LocalStep(f, t, lines) ==
    /\ SetTask(f, t)
    /\ errLog' = errLog \o lines
    /\ UNCHANGED <<inputDir, outDir, report, force_reprocess, max_workers,
                   processing_stats, format_cache, cpc, ctmp, saved_files, runs,
                   outDir0, report_writes,
                   call>>

StoreBadName(f) ==
    StoreStep(f, "st_badname", "files_failed",
              [task[f] EXCEPT !.pc = "done", !.truthy = FALSE])

StoreFormat(f) ==
    StoreStep(f, "st_fmt",
              IF get_format_by_year(inputDir[f].year) = "OLD" THEN "old_format_files"
              ELSE "new_format_files",
              [task[f] EXCEPT !.pc = "open"])

OpenWorkbook(f) ==
    /\ task[f].pc = "open"
    /\ IF inputDir[f].sizeMB > SizeCeilingMB
       THEN LocalStep(f, [task[f] EXCEPT !.pc = "finally", !.truthy = FALSE], <<>>)
       ELSE IF ~inputDir[f].openable \/ inputDir[f].relevant_sheets = <<>>
       THEN \* pd.ExcelFile raises twice, or range(0, 0, 0) raises ValueError
            LocalStep(f, [task[f] EXCEPT !.pc = "st_ff",
                                         !.tmp = processing_stats["files_failed"]],
                      << Event("FILE_PROCESSING_ERROR", f, 0) >>)
       ELSE LocalStep(f, [task[f] EXCEPT !.pc = "sheet", !.i = 1,
                                         !.engine = "calamine"], <<>>)

StoreFileFailed(f) ==
    StoreStep(f, "st_ff", "files_failed",
              [task[f] EXCEPT !.pc = "finally", !.truthy = FALSE])

ReadSheet(f) ==
    /\ task[f].pc = "sheet"
    /\ IF SheetAt(f).special \/ SheetAt(f).data_type = "unknown"
       THEN LocalStep(f, NextSheet(f, task[f]), <<>>)
       ELSE IF (IF task[f].engine = "calamine" THEN SheetAt(f).calamine
                ELSE SheetAt(f).xlrd)
       THEN LocalStep(f, Detect(f, task[f]), <<>>)
       ELSE LocalStep(f, [task[f] EXCEPT !.pc = "st_ef",
                                         !.tmp = processing_stats["engine_fallbacks"]],
                      << Event("ENGINE_FALLBACK", f, task[f].i) >>)

StoreFallback(f) ==
    StoreStep(f, "st_ef", "engine_fallbacks", [task[f] EXCEPT !.pc = "fallback"])

FallbackRead(f) ==
    /\ task[f].pc = "fallback"
    /\ IF SheetAt(f).xlrd
       THEN LocalStep(f, Detect(f, [task[f] EXCEPT !.engine = "xlrd"]), <<>>)
       ELSE LocalStep(f, [task[f] EXCEPT !.pc = "st_sf",
                                         !.tmp = processing_stats["sheets_failed"]],
                      << Event("SHEET_READ_FAILED", f, task[f].i) >>)

CacheSet(f) ==
    /\ task[f].pc = "cache_set"
    /\ format_cache' = Put(format_cache, CacheKey(inputDir[f], SheetAt(f)),
                           task[f].start)
    /\ SetTask(f, [task[f] EXCEPT !.pc = "extract"])
    /\ UNCHANGED <<inputDir, outDir, errLog, report, force_reprocess, max_workers,
                   processing_stats, cpc, ctmp, saved_files, runs, outDir0,
                   report_writes,
                   call>>

\* faulty variant: a table the validator has flagged is dropped
ParsedRejecting(f, t, sh, p) ==
    IF p.kind = "raise"
    THEN LocalStep(f, [t EXCEPT !.pc = "st_sf",
                                !.tmp = processing_stats["sheets_failed"]],
                   << Event("DATA_PARSE_ERROR", f, t.i) >>)
    ELSE IF p.table.rows = <<>>
    THEN LocalStep(f, [t EXCEPT !.pc = "st_empty",
                                !.tmp = processing_stats["data_quality_issues"]],
                   << Event("EMPTY_DATA", f, t.i) >>)
    ELSE IF p.issues # <<>>
    THEN LocalStep(f, [t EXCEPT !.pc = "st_empty",
                                !.tmp = processing_stats["data_quality_issues"]],
                   << Event("DATA_QUALITY_ISSUE", f, t.i) >>)
    ELSE LocalStep(f, [t EXCEPT !.pc = "st_sp",
                                !.res = PutResult(t.res, sh, p.table),
                                !.tmp = processing_stats["sheets_processed"]],
                   <<>>)

\* parse_*_sheet has answered p for the sheet sh
Parsed(f, t, sh, p) ==
    IF p.kind = "raise"
    THEN LocalStep(f, [t EXCEPT !.pc = "st_sf",
                                !.tmp = processing_stats["sheets_failed"]],
                   << Event("DATA_PARSE_ERROR", f, t.i) >>)
    ELSE IF p.table.rows = <<>>
    THEN LocalStep(f, [t EXCEPT !.pc = "st_empty",
                                !.tmp = processing_stats["data_quality_issues"]],
                   << Event("EMPTY_DATA", f, t.i) >>)
    ELSE IF p.issues # <<>>
    THEN LocalStep(f, [t EXCEPT !.pc = "st_dqi",
                                !.tmp = processing_stats["data_quality_issues"]],
                   << Event("DATA_QUALITY_ISSUE", f, t.i) >>)
    ELSE LocalStep(f, [t EXCEPT !.pc = "st_sp",
                                !.res = PutResult(t.res, sh, p.table),
                                !.tmp = processing_stats["sheets_processed"]],
                   <<>>)

ParseSheet(f) ==
    /\ task[f].pc = "extract"
    /\ Parsed(f, task[f], SheetAt(f), SheetAt(f).parsed[task[f].start])

StoreQuality(f) ==
    StoreStep(f, "st_dqi", "data_quality_issues", [task[f] EXCEPT !.pc = "count"])

CountSheet(f) ==
    /\ task[f].pc = "count"
    /\ LocalStep(f, [task[f] EXCEPT
                       !.pc = "st_sp",
                       !.res = PutResult(task[f].res, SheetAt(f),
                                         SheetAt(f).parsed[task[f].start].table),
                       !.tmp = processing_stats["sheets_processed"]],
                 <<>>)

StoreEmpty(f) ==
    StoreStep(f, "st_empty", "data_quality_issues", NextSheet(f, task[f]))

StoreSheetFailed(f) ==
    StoreStep(f, "st_sf", "sheets_failed", NextSheet(f, task[f]))

StoreSheetProcessed(f) ==
    StoreStep(f, "st_sp", "sheets_processed", NextSheet(f, task[f]))

Finally(f) ==
    /\ task[f].pc = "finally"
    /\ LocalStep(f, [task[f] EXCEPT !.pc = "st_fp",
                                    !.tmp = processing_stats["files_processed"]],
                 <<>>)

StoreFileProcessed(f) ==
    StoreStep(f, "st_fp", "files_processed", [task[f] EXCEPT !.pc = "done"])


\* ------------------------------------- clean_all_files, the as_completed loop

RECURSIVE NonEmptyTables(_)
NonEmptyTables(d) ==
    IF d = <<>> THEN <<>>
    ELSE (IF Head(d).val.rows # <<>> THEN << Head(d).val >> ELSE <<>>)
         \o NonEmptyTables(Tail(d))

\* faulty variant: the existing file is not looked for
save_without_exists_check(out, key, provinces, unwritable) ==
    IF NonEmptyTables(provinces) = <<>>
    THEN [ret |-> <<>>, out |-> out, raised |-> FALSE]
    ELSE IF unwritable
    THEN [ret |-> <<>>, out |-> out, raised |-> TRUE]
    ELSE [ret |-> <<key>>,
          out |-> Put(out, key, NonEmptyTables(provinces)), raised |-> FALSE]

\* save_consolidated_data(data_type, all_provinces_data, year, month) on the
\* directory out: the directory it leaves, what it returns ("" is <<>>, a
\* path is <<key>>) and whether to_csv raised; unwritable says that the
\* target cannot be written
save_consolidated_data(out, key, provinces, unwritable) ==
    IF key \in DOMAIN out /\ ~force_reprocess
    THEN [ret |-> <<key>>, out |-> out, raised |-> FALSE]
    ELSE IF NonEmptyTables(provinces) = <<>>
    THEN [ret |-> <<>>, out |-> out, raised |-> FALSE]
    ELSE IF unwritable
    THEN [ret |-> <<>>, out |-> out, raised |-> TRUE]
    ELSE [ret |-> <<key>>,
          out |-> Put(out, key, NonEmptyTables(provinces)), raised |-> FALSE]

\* the rest of the loop over file_results.items() once the call for
\* DataTypes[j] has answered r
RECURSIVE SaveAll(_, _, _, _, _, _)
Saved(w, results, j, r, saved, bad) ==
    IF r.raised THEN [out |-> r.out, raised |-> TRUE, saved |-> saved]
    ELSE SaveAll(w, results, j + 1, r.out,
                 [saved EXCEPT ![DataTypes[j]] = saved[DataTypes[j]] \o r.ret], bad)

\* the loop over file_results.items() from the j-th data type on; bad is the
\* set of data types whose target cannot be written
SaveAll(w, results, j, out, saved, bad) ==
    IF j > Len(DataTypes) THEN [out |-> out, raised |-> FALSE, saved |-> saved]
    ELSE IF results[DataTypes[j]] = <<>> THEN SaveAll(w, results, j + 1, out, saved, bad)
    ELSE Saved(w, results, j,
               save_consolidated_data(out, OutKey(w, DataTypes[j]),
                                      results[DataTypes[j]], DataTypes[j] \in bad),
               saved, bad)

\* the consolidation of one completed future has answered r
Consolidated(f, r) ==
    /\ outDir' = r.out
    /\ saved_files' = r.saved
    /\ IF r.raised
       THEN /\ Log(Event("FILE_PROCESSING_ERROR", f, 0))
            /\ ctmp' = processing_stats["files_failed"]
            /\ cpc' = "st_ff"
       ELSE UNCHANGED <<errLog, cpc, ctmp>>

\* one iteration of  for future in as_completed(future_to_file)
Collect(f) ==
    /\ cpc = "loop"
    /\ task[f].pc = "done"
    /\ SetTask(f, [task[f] EXCEPT !.pc = "collected"])
    /\ IF ~task[f].truthy
       THEN UNCHANGED <<outDir, saved_files, errLog, cpc, ctmp>>
       ELSE \E bad \in SUBSET {"unemployment", "contracts"} :
              Consolidated(f, SaveAll(inputDir[f], task[f].res, 1, outDir,
                                      saved_files, bad))
    /\ UNCHANGED <<inputDir, report, force_reprocess, max_workers,
                   processing_stats, format_cache, runs, outDir0, report_writes,
                   call>>

CoordStoreFailed ==
    /\ cpc = "st_ff"
    /\ processing_stats' = [processing_stats EXCEPT !["files_failed"] = ctmp + 1]
    /\ cpc' = "loop"
    /\ UNCHANGED <<inputDir, outDir, errLog, report, force_reprocess, max_workers,
                   format_cache, ctmp, saved_files, task, runs, outDir0,
                   report_writes,
                   call>>

\* the pool is drained: generate_processing_report, return saved_files
Finish ==
    /\ cpc = "loop"
    /\ \A f \in Files : task[f].pc \in {"none", "collected"}
    /\ report' = TRUE
    /\ report_writes' = report_writes + 1
    /\ cpc' = "returned"
    /\ UNCHANGED <<inputDir, outDir, errLog, force_reprocess, max_workers,
                   processing_stats, format_cache, ctmp, saved_files, task, runs,
                   outDir0,
                   call>>

WorkerStep(f) ==
    \/ StartFile(f)
    \/ StoreBadName(f)
    \/ StoreFormat(f)
    \/ OpenWorkbook(f)
    \/ StoreFileFailed(f)
    \/ ReadSheet(f)
    \/ StoreFallback(f)
    \/ FallbackRead(f)
    \/ CacheSet(f)
    \/ ParseSheet(f)
    \/ StoreQuality(f)
    \/ CountSheet(f)
    \/ StoreEmpty(f)
    \/ StoreSheetFailed(f)
    \/ StoreSheetProcessed(f)
    \/ Finally(f)
    \/ StoreFileProcessed(f)

CoordinatorStep ==
    \/ \E f \in Files : Collect(f)
    \/ CoordStoreFailed
    \/ Finish

Next ==
    \/ NewCleaner
    \/ RunStart
    \/ \E f \in Files : WorkerStep(f)
    \/ CoordinatorStep

Spec == Init /\ [][Next]_vars

\* the pool keeps running a thread that has a step to take, and the
\* coordinator thread keeps being scheduled
FairSpec ==
    /\ Spec
    /\ WF_vars(\E f \in Files : WorkerStep(f))
    /\ WF_vars(CoordinatorStep)

\* ------------------------------------------- one file on a cleaner of its own

\* process_sheet_batch from sheet i on, run to its end on one thread: the
\* engine, the cache and the results are threaded as the loop threads them
RECURSIVE AloneFrom(_, _, _, _, _)

\* the sheet sh has been read with engine
AloneRead(w, i, sh, engine, cache, res, start) ==
    AloneFrom(w, i + 1, engine, Put(cache, CacheKey(w, sh), start),
              IF sh.parsed[start].kind = "table" /\ sh.parsed[start].table.rows # <<>>
              THEN PutResult(res, sh, sh.parsed[start].table)
              ELSE res)

AloneSheet(w, i, sh, engine, cache, res) ==
    IF sh.special \/ sh.data_type = "unknown"
    THEN AloneFrom(w, i + 1, engine, cache, res)
    ELSE IF (IF engine = "calamine" THEN sh.calamine ELSE sh.xlrd) \/ sh.xlrd
    THEN AloneRead(w, i, sh,
                   IF (IF engine = "calamine" THEN sh.calamine ELSE sh.xlrd)
                   THEN engine ELSE "xlrd",
                   cache, res,
                   IF CacheKey(w, sh) \in DOMAIN cache THEN cache[CacheKey(w, sh)]
                   ELSE sh.located)
    ELSE AloneFrom(w, i + 1, engine, cache, res)

AloneFrom(w, i, engine, cache, res) ==
    IF i > Len(w.relevant_sheets) THEN [res |-> res, cache |-> cache]
    ELSE AloneSheet(w, i, w.relevant_sheets[i],
                    IF (i - 1) % Min(BatchSize, Len(w.relevant_sheets)) = 0
                    THEN "calamine" ELSE engine,
                    cache, res)

\* process_file(w) run to its end on one thread, on a cleaner whose cache is
\* cache: whether it returns a result, the result, the cache it leaves
ProcessAlone(w, cache) ==
    IF \/ ~w.dateOk
       \/ w.sizeMB > SizeCeilingMB
       \/ ~w.openable
       \/ w.relevant_sheets = <<>>
    THEN [truthy |-> FALSE, res |-> NoResults, cache |-> cache]
    ELSE [truthy |-> TRUE,
          res |-> AloneFrom(w, 1, "calamine", cache, NoResults).res,
          cache |-> AloneFrom(w, 1, "calamine", cache, NoResults).cache]

\* clean_all_files with the files fs handed to a single thread one after the
\* other, every write succeeding: the output directory it leaves
RECURSIVE SeqOut(_, _, _)
SeqSaved(fs, r, out) ==
    SeqOut(Tail(fs), r.cache,
           IF r.truthy
           THEN SaveAll(inputDir[Head(fs)], r.res, 1, out, NoSaved, {}).out
           ELSE out)

SeqOut(fs, cache, out) ==
    IF fs = <<>> THEN out
    ELSE SeqSaved(fs, ProcessAlone(inputDir[Head(fs)], cache), out)

\* ---------------------------------------------------------------- notions

\* the future of f has completed
Final(f) == task[f].pc \in {"done", "collected"}

InSeq(x, s) == \E i \in 1..Len(s) : s[i] = x

\* lines of the error log of the kinds given
Count(kinds) == Cardinality({ i \in 1..Len(errLog) : errLog[i].kind \in kinds })

\* a FILE_PROCESSING_ERROR line names f
FailureLogged(f) == InSeq(Event("FILE_PROCESSING_ERROR", f, 0), errLog)

\* process_file cannot get to the sheets of w
Unprocessable(w) == ~w.dateOk \/ ~w.openable \/ w.relevant_sheets = <<>>

\* files of the run whose processing or whose consolidation failed
FailedFiles ==
    { f \in DOMAIN inputDir :
        Final(f) /\ (Unprocessable(inputDir[f]) \/ (task[f].truthy /\ FailureLogged(f))) }

\* a sheet that is sound on its own: an engine reads it and the rows its own
\* grid holds extract to a non-empty table
Sound(sh) ==
    /\ ~sh.special
    /\ sh.data_type # "unknown"
    /\ sh.calamine \/ sh.xlrd
    /\ sh.parsed[sh.located].kind = "table"
    /\ sh.parsed[sh.located].table.rows # <<>>

\* the table of sh is in the result under the key of its province
HasTable(res, sh) ==
    InSeq([key |-> sh.key, val |-> sh.parsed[sh.located].table], res[sh.data_type])

BothOutputs(f, out) ==
    /\ inputDir[f].dateOk
    /\ OutKey(inputDir[f], "unemployment") \in DOMAIN out
    /\ OutKey(inputDir[f], "contracts") \in DOMAIN out

\* ----------------------------------------------------------------- claims

\* C1: in process_file on a workbook of its own, when a relevant sheet fails
\* (unreadable, an exception in its extraction, or malformed), every other
\* relevant sheet that is sound still has its table in the returned result,
\* and the file is not counted as failed.
C1_SheetIsolation ==
    \A f \in DOMAIN inputDir :
       (/\ DOMAIN inputDir = {f}
        /\ task[f].pc = "done"
        /\ ~Unprocessable(inputDir[f])
        /\ \E j \in 1..Len(inputDir[f].relevant_sheets) :
              ~Sound(inputDir[f].relevant_sheets[j]))
       => /\ task[f].truthy
          /\ processing_stats["files_failed"] = 0
          /\ \A i \in 1..Len(inputDir[f].relevant_sheets) :
                Sound(inputDir[f].relevant_sheets[i])
                => HasTable(task[f].res, inputDir[f].relevant_sheets[i])

\* C2: when clean_all_files has returned, every file whose processing or
\* consolidation failed is logged and files_failed counts exactly those
\* files, and every other queued file has been processed and each of its
\* non-empty categories is in the output directory.
C2_FileIsolation ==
    cpc = "returned" =>
       /\ \A f \in FailedFiles : FailureLogged(f)
       /\ processing_stats["files_failed"] = Cardinality(FailedFiles)
       /\ \A f \in DOMAIN inputDir :
             (task[f].pc # "none" /\ f \notin FailedFiles)
             => /\ task[f].pc = "collected"
                /\ \A j \in 1..Len(DataTypes) :
                      NonEmptyTables(task[f].res[DataTypes[j]]) # <<>>
                      => OutKey(inputDir[f], DataTypes[j]) \in DOMAIN outDir

\* C3: without force_reprocess, save_consolidated_data called for an output
\* that exists returns the existing path, raises nothing and leaves the
\* directory as it is; and no step of the pipeline changes or removes an
\* output file that exists, so a file keeps the content of its first write.
C3_WriteOnce ==
    /\ [](\A f \in DOMAIN inputDir : \A j \in 1..Len(DataTypes) : \A u \in BOOLEAN :
            (~force_reprocess /\ OutKey(inputDir[f], DataTypes[j]) \in DOMAIN outDir)
            => save_consolidated_data(outDir, OutKey(inputDir[f], DataTypes[j]),
                                      task[f].res[DataTypes[j]], u)
               = [ret |-> << OutKey(inputDir[f], DataTypes[j]) >>, out |-> outDir,
                  raised |-> FALSE])
    /\ [][~force_reprocess
          => \A k \in DOMAIN outDir : k \in DOMAIN outDir' /\ outDir'[k] = outDir[k]]_vars

\* a run without force has consolidated a file one of whose outputs existed
\* when the run started: the output is as the run found it and its path is in
\* the list the run returns
C3_Witness ==
    /\ runs > 1
    /\ ~force_reprocess
    /\ \E f \in DOMAIN inputDir : \E j \in 1..Len(DataTypes) :
          /\ task[f].pc = "collected"
          /\ task[f].truthy
          /\ NonEmptyTables(task[f].res[DataTypes[j]]) # <<>>
          /\ OutKey(inputDir[f], DataTypes[j]) \in DOMAIN outDir0
          /\ outDir[OutKey(inputDir[f], DataTypes[j])]
               = outDir0[OutKey(inputDir[f], DataTypes[j])]
          /\ InSeq(OutKey(inputDir[f], DataTypes[j]), saved_files[DataTypes[j]])

\* C4: once a run has started, a file both of whose outputs existed at the
\* start of a run without force has no future in that run and both paths are
\* in the returned lists; every other file of the directory has a future.
C4_SkipWhenBothExist ==
    cpc # "idle" =>
       \A f \in DOMAIN inputDir :
          IF ~force_reprocess /\ BothOutputs(f, outDir0)
          THEN /\ task[f].pc = "none"
               /\ InSeq(OutKey(inputDir[f], "unemployment"), saved_files["unemployment"])
               /\ InSeq(OutKey(inputDir[f], "contracts"), saved_files["contracts"])
          ELSE task[f].pc # "none"

\* a run without force that skips one file and works on another
C4_Witness ==
    /\ cpc = "loop"
    /\ ~force_reprocess
    /\ \E f \in DOMAIN inputDir : \E g \in DOMAIN inputDir :
          /\ BothOutputs(f, outDir0)
          /\ task[f].pc = "none"
          /\ InSeq(OutKey(inputDir[f], "contracts"), saved_files["contracts"])
          /\ ~BothOutputs(g, outDir0)
          /\ task[g].pc \notin {"none", "queued"}

\* C5 (as stated): a file that a run processed and consolidated, with no
\* line about it in the error log, is skipped by the next run without force.
C5_ResumeEveryFile ==
    [][runs' = runs + 1
       => \A f \in DOMAIN inputDir :
             (/\ task[f].pc = "collected"
              /\ task[f].truthy
              /\ \A i \in 1..Len(errLog) : errLog[i].file # f
              /\ \E j \in 1..Len(DataTypes) :
                    InSeq(OutKey(inputDir[f], DataTypes[j]), saved_files[DataTypes[j]])
              /\ ~force_reprocess)
             => task'[f].pc = "none"]_vars

\* C5 (amended): a file that a run processed and for which the output
\* directory holds both the unemployment and the contracts output is skipped
\* by the next run without force.
C5_ResumeBothOutputs ==
    [][runs' = runs + 1
       => \A f \in DOMAIN inputDir :
             (/\ task[f].pc = "collected"
              /\ BothOutputs(f, outDir)
              /\ ~force_reprocess)
             => task'[f].pc = "none"]_vars

\* a second run without force that finds every file of the directory done
\* and returns at once
C5_Witness ==
    /\ runs > 1
    /\ ~force_reprocess
    /\ cpc = "returned"
    /\ report_writes = 0
    /\ DOMAIN inputDir # {}
    /\ \A f \in DOMAIN inputDir : BothOutputs(f, outDir0) /\ task[f].pc = "none"

\* C6: the result process_file returns for a file in a run is the result it
\* returns for the file alone on a fresh cleaner.
C6_FilesIndependent ==
    \A f \in DOMAIN inputDir :
       Final(f) =>
          /\ task[f].truthy = ProcessAlone(inputDir[f], Empty).truthy
          /\ task[f].res = ProcessAlone(inputDir[f], Empty).res

\* C7: when a run with more than one worker has returned, each counter that
\* has a line in the error log equals the number of those lines, and
\* files_processed equals the number of files that went through the finally
\* block of process_file.
C7_CountersExact ==
    (cpc = "returned" /\ max_workers > 1) =>
       /\ processing_stats["files_failed"] = Count({"FILE_PROCESSING_ERROR"})
       /\ processing_stats["sheets_failed"]
            = Count({"SHEET_READ_FAILED", "DATA_PARSE_ERROR"})
       /\ processing_stats["engine_fallbacks"] = Count({"ENGINE_FALLBACK"})
       /\ processing_stats["data_quality_issues"]
            = Count({"EMPTY_DATA", "DATA_QUALITY_ISSUE"})
       /\ processing_stats["files_processed"]
            = Cardinality({ f \in DOMAIN inputDir : Final(f) /\ inputDir[f].dateOk })

\* C8: when the first run of a fresh cleaner on an empty output directory has
\* returned and no write failed, the output directory is the one the run
\* leaves when the files complete one after the other.
C8_OrderIndependent ==
    (/\ cpc = "returned"
     /\ runs = 1
     /\ \A f \in DOMAIN inputDir : ~(task[f].truthy /\ FailureLogged(f)))
    => outDir = SeqOut(InOrder(DOMAIN inputDir), Empty, Empty)

\* C9: a call of clean_all_files that has returned has written the summary
\* report exactly once.
C9_ReportOnce == cpc = "returned" => report_writes = 1

\* C10: under fair scheduling of the pool threads and of the coordinator
\* thread, a run that has entered its loop returns, and every queued file
\* completes.
C10_RunCompletes ==
    (cpc = "loop") ~> (cpc = "returned" /\ \A f \in Files : task[f].pc # "queued" /\ (task[f].pc # "none" => Final(f)))

\* a run has returned although one file failed and a sheet of another file
\* could not be read
C10_Witness ==
    /\ cpc = "returned"
    /\ report_writes = 1
    /\ \E f \in DOMAIN inputDir : \E g \in DOMAIN inputDir :
          /\ task[f].pc = "collected" /\ ~task[f].truthy /\ FailureLogged(f)
          /\ task[g].pc = "collected" /\ task[g].truthy
          /\ \E i \in 1..Len(errLog) :
                errLog[i].kind = "SHEET_READ_FAILED" /\ errLog[i].file = g

\* C11: whenever detect_format_and_data_start has answered for the sheet a
\* worker is at, the start row it answered is the one the heuristic of the
\* sheet's generation finds in the sheet's own grid.
C11_LocatorPure ==
    \A f \in DOMAIN inputDir :
       task[f].pc = "extract" => task[f].start = SheetAt(f).located

\* ------------------------------ the helpers of the cleaner, called by themselves

\* rows of a grid handed to the locator by itself
MaxColumn == 3

\* all sequences over the cells of pool of length at most n
RECURSIVE Columns(_, _)
Columns(pool, n) ==
    IF n = 0 THEN { <<>> }
    ELSE Columns(pool, n - 1) \cup
         { Append(c, pool[i]) : c \in Columns(pool, n - 1), i \in 1..Len(pool) }

\* the (df, year) pairs the locator is called with.  Modern sheets: every
\* first column of up to MaxColumn cells, the column [0, 0, 1234, 1235, NaN],
\* a sheet whose only identifier comes after the head of the sheet, and a
\* sheet with no column.  Older sheets: every second column of up to
\* MaxColumn cells, the column ["PARO REGISTRADO", "", "Madrid", "Alcala"]
\* (with its accent), and a sheet with one column.
LocateInputs ==
    LET IdCells == << Num(0), Num(1000), Num(1234), NaN,
                      Str(<<"1","2","3","5">>), Str(<<"a","b","c">>) >>
        IdLate == [i \in 1..(HeadRows + 1) |-> IF i > HeadRows THEN Num(1234) ELSE Num(0)]
        IdGrid(col) == Grid(UnemploymentWidth, [i \in 1..Len(col) |-> << col[i], NaN, NaN >>])
        NameCells == << Str(<<"P","A","R","O"," ","R","E","G","I","S","T","R","A","D","O">>),
                        Str(<<>>), NaN, Str(<<"M","a","d","r","i","d">>),
                        Str(<<"T","o","t","a","l">>), Str(<<"A","b","1">>), Num(12345) >>
        NameGrid(col) == Grid(UnemploymentWidth, [i \in 1..Len(col) |-> << NaN, col[i], NaN >>])
    IN  { [year |-> y, grid |-> g] :
            g \in { IdGrid(col) : col \in Columns(IdCells, MaxColumn)
                                          \cup { << Num(0), Num(0), Num(1234), Num(1235), NaN >>,
                                                 IdLate } }
                  \cup { Grid(0, <<>>) },
            y \in { 2013, 2015 } }
        \cup
        { [year |-> y, grid |-> g] :
            g \in { NameGrid(col) :
                      col \in Columns(NameCells, MaxColumn)
                              \cup { << Str(<<"P","A","R","O"," ","R","E","G","I","S","T","R","A","D","O">>),
                                        Str(<<>>), Str(<<"M","a","d","r","i","d">>),
                                        Str(<<"A","l","c","a","l","U+00E1">>) >> } }
                  \cup { Grid(1, << << NaN, Str(<<"M","a","d","r","i","d">>), NaN >> >>) },
            y \in { 2007, 2012 } }

\* the other variables stay as a new cleaner has them
Called(op, arg, ret, memo) ==
    /\ call' = [op |-> op, arg |-> arg, ret |-> ret, memo |-> memo]
    /\ UNCHANGED <<inputDir, outDir, errLog, report, force_reprocess, max_workers,
                   processing_stats, format_cache, cpc, ctmp, saved_files, task,
                   runs, outDir0, report_writes>>

\* detect_format_and_data_start(df, province, year) on a new cleaner
CallLocate ==
    \E a \in LocateInputs : Called("locate", a, Locate(a.grid, a.year), Empty)

\* get_format_by_year(year) through its lru_cache, on the same cleaner as the
\* call before: the cache holds the years asked so far (fewer than its
\* maxsize of 128, so none is evicted)
CallClassify ==
    \E year \in { -1, 2007, 2012, 2013, 2014 } :
       IF year \in DOMAIN call.memo
       THEN Called("classify", year, [format |-> call.memo[year], hit |-> TRUE],
                   call.memo)
       ELSE Called("classify", year,
                   [format |-> get_format_by_year(year), hit |-> FALSE],
                   Put(call.memo, year, get_format_by_year(year)))

\* raw sheet names: the two categories, the special sheets, names the
\* mapping table rewrites, names with blanks around them, names that hold a
\* category word without starting with it
SheetNames ==
    SpecialSheets \cup
    { <<"P","A","R","O"," ","M","A","D","R","I","D">>,
      <<"C","O","N","T","R","A","T","O","S"," ","M","A","D","R","I","D">>,
      <<"C","O","N","T","R","T","O","S"," ","L","U","G","O">>,
      <<" ","P","A","R","O"," ","M","A","D","R","I","D"," ">>,
      <<"P","A","R","O">>,
      <<"P","A","R","O","M","A","D","R","I","D">>,
      <<"p","a","r","o"," ","m","a","d","r","i","d">>,
      <<"P","A","R","O"," ","S","T","A"," ","C","R","U","Z"," ","T","E","N","E","R",".">>,
      <<"C","O","N","T","R","A","T","O","S"," ","A"," ","C","O","R","U","U+221A","U+00EB","A">>,
      <<"S","T","A","."," ","C","R","U","Z"," ","T","E","N","E","R",".">>,
      <<"R","E","S","U","M","E","N"," ","C","O","N","T","R","A","T","O","S"," ","L","U","G","O">>,
      <<"R","E","S","U","M","E","N">>,
      <<>> }

\* clean_sheet_name(sheet_name)
CallRoute ==
    \E name \in SheetNames : Called("route", name, clean_sheet_name(name), Empty)

\* the numeric cleaning of parse_unemployment_sheet / parse_contracts_sheet on
\* one raw measure value: marked, blank, empty, textual and numeric values
CallCoerce ==
    \E c \in { Str(<<"<","5">>), Str(<<" ">>), Str(<<"a","b","c">>), Str(<<>>),
                Str(<<">","1","2">>), Str(<<"<"," ","5">>), Str(<<"1"," ","2","3","4">>),
                Str(<<"<",">">>), Str(<<"-">>), Str(<<"4","1","0">>), Num(5300), NaN },
       data_type \in { "unemployment", "contracts" } :
       Called("coerce", [data_type |-> data_type, cell |-> c],
              CoerceMeasure(c, data_type), Empty)

\* final_columns of parse_unemployment_sheet / parse_contracts_sheet, which are
\* also the names the modern branch gives its columns
final_columns(data_type) ==
    IF data_type = "unemployment"
    THEN << "municipality_code", "municipality_name", "total_unemployment",
            "men_under_25", "men_25_44", "men_45_plus", "women_under_25",
            "women_25_44", "women_45_plus", "agriculture_sector",
            "industry_sector", "construction_sector", "services_sector",
            "no_previous_employment" >>
    ELSE << "municipality_code", "municipality_name", "total_contracts",
            "men_indefinite_initial", "men_temporary_initial",
            "men_indefinite_conversion", "women_indefinite_initial",
            "women_temporary_initial", "women_indefinite_conversion",
            "agriculture_sector", "industry_sector", "construction_sector",
            "services_sector" >>

\* data_df.columns of the frame a parser returns: the identifier, the name,
\* the measure columns that were available, then the metadata columns
ColumnsOf(x, data_type) ==
    IF x.kind = "table" /\ x.rows = <<>> /\ x.nmeas = 0 THEN <<>>
    ELSE SubSeq(final_columns(data_type), 1, 2 + x.nmeas)
         \o << "province", "year", "month", "data_type" >>

\* parse_unemployment_sheet / parse_contracts_sheet called on a sheet of a
\* new cleaner: modern and older rows in grids of several widths
CallExtract ==
    \E ncols \in { 2, 10, 13, 14, 17, 18 },
       rows \in { GridMadridParo.rows, GridSevillaParo.rows },
       data_type \in { "unemployment", "contracts" },
       year \in { 2007, 2010, 2015 } :
       LET x == ExtractWith(Grid(ncols, rows), Locate(Grid(ncols, rows), year),
                            <<"S","E","V","I","L","L","A">>, data_type, year)
       IN  Called("extract",
                  [data_type |-> data_type, ncols |-> ncols, rows |-> rows, year |-> year],
                  [rows |-> x.rows, kind |-> x.kind, columns |-> ColumnsOf(x, data_type)],
                  Empty)

\* validate_parsed_data called on a table of a new cleaner: the issues it
\* finds, the lines it appends to the log and what it adds to
\* data_quality_issues.  The tables are those of one or two rows drawn from
\* a genuine row, a row with the placeholder identifier, a row with a
\* negative total and a row with an outlier total.
CallValidate ==
    \E rows \in LET Name == <<"G","e","t","a","f","e">>
                     pool == << [municipality_code |-> 28065, municipality_name |-> Name, total |-> 410],
                                [municipality_code |-> 0, municipality_name |-> Name, total |-> 410],
                                [municipality_code |-> 28065, municipality_name |-> Name, total |-> -5],
                                [municipality_code |-> 28065, municipality_name |-> Name, total |-> 120000] >>
                 IN  { <<pool[i]>> : i \in 1..4 } \cup { <<pool[i], pool[j]>> : i, j \in 1..4 },
       data_type \in { "unemployment", "contracts" },
       year \in { 2010, 2015 } :
       LET issues == validate_parsed_data([rows |-> rows, kind |-> "table",
                                           nmeas |-> NewWidth(data_type) - 2], data_type, year)
       IN  Called("validate",
                  [data_type |-> data_type, rows |-> rows, year |-> year],
                  [rows |-> rows,
                   issues |-> issues,
                   lines |-> IF issues # <<>>
                             THEN << Event("DATA_QUALITY_ISSUE", "sheet", 1) >> ELSE <<>>,
                   data_quality_issues |-> IF issues # <<>> THEN 1 ELSE 0],
                  Empty)

\* the pre-filter of process_file on the sheet names of a workbook: one
\* name, or a cover followed by two names
CallPrefilter ==
    \E names \in { <<n>> : n \in SheetNames }
                  \cup { << <<"P","O","R","T","A","D","A">>, n, m >> :
                         n \in { <<"P","A","R","O"," ","L","U","G","O">> },
                         m \in { <<"C","O","N","T","R","T","O","S"," ","L","U","G","O">>,
                                 <<"C","O","N","T","R","A","T","O","S"," ","L","U","G","O">> } } :
       Called("prefilter", names, SelectSeq(names, IsRelevantSheet), Empty)

HelperInit ==
    /\ Init
    /\ inputDir = Empty
    /\ ~force_reprocess
    /\ max_workers = 1

HelperNext ==
    \/ CallLocate
    \/ CallClassify
    \/ CallRoute
    \/ CallCoerce
    \/ CallExtract
    \/ CallValidate
    \/ CallPrefilter

HelperSpec == HelperInit /\ [][HelperNext]_vars

\* C12: for a year after 2012 the locator returns the index of the first row
\* among the first 50 whose first-column value coerces to a number above
\* 1000, None when there is no such row, and 2 for the identifier column
\* [0, 0, 1234, 1235, NaN].
C12_LocateModern ==
    (call.op = "locate" /\ call.arg.year > 2012) =>
       LET rows == call.arg.grid.rows
           Code(i) == ToNumeric(rows[i + 1][1])
           Hits == { i \in 0..(Len(rows) - 1) :
                       i < 50 /\ Code(i).k = "num" /\ Code(i).v > 1000 }
       IN  /\ Hits = {} => call.ret = <<>>
           /\ Hits # {} => \E i \in Hits : call.ret = <<i>> /\ \A j \in Hits : i <= j
           /\ [i \in 1..Len(rows) |-> rows[i][1]]
                = << Num(0), Num(0), Num(1234), Num(1235), NaN >> => call.ret = <<2>>

\* the locator has answered 2 on the column [0, 0, 1234, 1235, NaN]
C12_Witness ==
    /\ call.op = "locate"
    /\ call.arg.year = 2013
    /\ [i \in 1..Len(call.arg.grid.rows) |-> call.arg.grid.rows[i][1]]
         = << Num(0), Num(0), Num(1234), Num(1235), NaN >>
    /\ call.ret = <<2>>

\* C13: for a year up to 2012 the locator returns the index of the first row
\* among the first 50 whose second-column value is a non-empty string longer
\* than 3 characters that holds a letter and is not boilerplate (a total, a
\* sex-category header, the title "PARO REGISTRADO"), None when there is no
\* such row, and 2 for the name column ["PARO REGISTRADO", "", "Madrid",
\* "Alcala" (with its accent)].
C13_LocateOlder ==
    (call.op = "locate" /\ call.arg.year <= 2012) =>
       LET rows == call.arg.grid.rows
           Name(i) == rows[i + 1][2]
           Boilerplate(t) == \/ Upper(t) \in LocatorExclude
                             \/ Upper(t) = <<"P","A","R","O"," ","R","E","G","I","S","T","R","A","D","O">>
           Hits == { i \in 0..(Len(rows) - 1) :
                       /\ i < 50
                       /\ call.arg.grid.ncols > 1
                       /\ Name(i).k = "str"
                       /\ Len(Name(i).s) > 3
                       /\ \E j \in 1..Len(Name(i).s) : IsAsciiLetter(Name(i).s[j])
                       /\ ~Boilerplate(Name(i).s) }
       IN  /\ Hits = {} => call.ret = <<>>
           /\ Hits # {} => \E i \in Hits : call.ret = <<i>> /\ \A j \in Hits : i <= j
           /\ [i \in 1..Len(rows) |-> rows[i][2]]
                = << Str(<<"P","A","R","O"," ","R","E","G","I","S","T","R","A","D","O">>),
                     Str(<<>>), Str(<<"M","a","d","r","i","d">>),
                     Str(<<"A","l","c","a","l","U+00E1">>) >>
              => call.ret = <<2>>

\* C14: get_format_by_year answers for every year, the older generation for
\* every year up to and including 2012 and the modern one from 2013 on, and
\* an answer taken from its cache is the answer it computes.
C14_ClassifierSplit ==
    call.op = "classify" =>
       /\ call.ret.format = (IF call.arg <= 2012 THEN "OLD" ELSE "NEW")
       /\ call.arg = 2012 => call.ret.format = "OLD"
       /\ call.arg = 2013 => call.ret.format = "NEW"
       /\ call.ret.format = get_format_by_year(call.arg)

\* 2012 has been asked a second time and answered from the cache, with 2013
\* in the cache too
C14_Witness ==
    /\ call.op = "classify"
    /\ call.arg = 2012
    /\ call.ret = [format |-> "OLD", hit |-> TRUE]
    /\ 2013 \in DOMAIN call.memo
    /\ call.memo[2013] = "NEW"

\* C15 (as stated): a raw sheet name that starts with neither 'PARO ' nor
\* 'CONTRATOS ' and is not a special sheet is routed to 'unknown'.
C15_RawNameUnknown ==
    (/\ call.op = "route"
     /\ ~StartsWith(call.arg, <<"P","A","R","O"," ">>)
     /\ ~StartsWith(call.arg, <<"C","O","N","T","R","A","T","O","S"," ">>)
     /\ call.arg \notin SpecialSheets)
    => call.ret.data_type = "unknown"

\* C15 (amended): a sheet name that, once stripped of the blanks around it
\* and with the names of the mapping table replaced, starts with neither
\* 'PARO ' nor 'CONTRATOS ' is routed to 'unknown', with the rewritten name as
\* its province.
C15_CleanedNameUnknown ==
    call.op = "route" =>
       LET s == ApplyMappings(Strip(call.arg), 1) IN
       (/\ ~StartsWith(s, <<"P","A","R","O"," ">>)
        /\ ~StartsWith(s, <<"C","O","N","T","R","A","T","O","S"," ">>))
       => call.ret = [data_type |-> "unknown", province |-> s, clean |-> s]

\* a name that holds a category word without starting with it has been
\* routed to 'unknown'
C15_Witness ==
    /\ call.op = "route"
    /\ call.arg = <<"R","E","S","U","M","E","N"," ","C","O","N","T","R","A","T","O","S"," ","L","U","G","O">>
    /\ call.ret.data_type = "unknown"

\* C16: in both extractors the raw measure "<5" becomes 5, " " becomes 0 and
\* "abc" becomes 0, and every value that is empty or not a number once its
\* '<', '>' and blanks are removed becomes 0.
C16_Coercion ==
    call.op = "coerce" =>
       /\ call.arg.cell = Str(<<"<","5">>) => call.ret = 5
       /\ call.arg.cell = Str(<<" ">>) => call.ret = 0
       /\ call.arg.cell = Str(<<"a","b","c">>) => call.ret = 0
       /\ LET t == RemoveChars(CellStr(call.arg.cell), {" ", "<", ">"})
          IN  (t = <<>> \/ ~IsIntText(t)) => call.ret = 0

\* the unemployment extractor has cleaned "<5" to 5
C16_Witness ==
    /\ call.op = "coerce"
    /\ call.arg = [data_type |-> "unemployment", cell |-> Str(<<"<","5">>)]
    /\ call.ret = 5

\* C17: every record of a table extracted from a workbook of a year up to
\* 2012 has municipality_code 0; every record of a table extracted from a
\* workbook of a later year has a nonzero municipality_code, the integer in
\* the first column of a row of that workbook with the record's name.  This
\* holds for the tables a worker has in its result and for the tables in the
\* output directory.
C17_IdentifierByEra ==
    /\ \A f \in DOMAIN inputDir : \A d \in {"unemployment", "contracts"} :
          \A e \in 1..Len(task[f].res[d]) :
             LET t == task[f].res[d][e].val IN
             \A r \in 1..Len(t.rows) :
                IF inputDir[f].year <= 2012
                THEN t.rows[r].municipality_code = 0
                ELSE /\ t.rows[r].municipality_code # 0
                     /\ \E i \in 1..Len(FileOf(f).sheets) :
                           \E j \in 1..Len(FileOf(f).sheets[i].grid.rows) :
                              LET g == FileOf(f).sheets[i].grid.rows[j] IN
                              /\ CanInt(g[1])
                              /\ IntOf(g[1]) = t.rows[r].municipality_code
                              /\ Strip(CellStr(g[2])) = t.rows[r].municipality_name
    /\ \A k \in DOMAIN outDir : \A e \in 1..Len(outDir[k]) :
          \A r \in 1..Len(outDir[k][e].rows) :
             (outDir[k][e].rows[r].municipality_code = 0) <=> (k[1] <= 2012)

\* a run over 2010_03 and 2015_07 has returned with both unemployment
\* outputs, the first with identifiers all zero and the second with none
\* zero, two files processed and none failed
C17_Witness ==
    /\ cpc = "returned"
    /\ DOMAIN inputDir = {"f2010_03", "f2015_07"}
    /\ processing_stats["files_processed"] = 2
    /\ processing_stats["files_failed"] = 0
    /\ <<2010, 3, "unemployment">> \in DOMAIN outDir
    /\ <<2015, 7, "unemployment">> \in DOMAIN outDir
    /\ \A e \in 1..Len(outDir[<<2010, 3, "unemployment">>]) :
          \A r \in 1..Len(outDir[<<2010, 3, "unemployment">>][e].rows) :
             outDir[<<2010, 3, "unemployment">>][e].rows[r].municipality_code = 0
    /\ \A e \in 1..Len(outDir[<<2015, 7, "unemployment">>]) :
          /\ outDir[<<2015, 7, "unemployment">>][e].rows # <<>>
          /\ \A r \in 1..Len(outDir[<<2015, 7, "unemployment">>][e].rows) :
                outDir[<<2015, 7, "unemployment">>][e].rows[r].municipality_code # 0

\* C18: every non-empty table returned by an extractor has the canonical
\* column list of its category, in order: municipality_code,
\* municipality_name, the category's measures, province, year, month,
\* data_type.
C18_StableSchema ==
    (call.op = "extract" /\ call.ret.kind = "table" /\ call.ret.rows # <<>>)
       => call.ret.columns =
             IF call.arg.data_type = "unemployment"
             THEN << "municipality_code", "municipality_name", "total_unemployment",
                     "men_under_25", "men_25_44", "men_45_plus", "women_under_25",
                     "women_25_44", "women_45_plus", "agriculture_sector",
                     "industry_sector", "construction_sector", "services_sector",
                     "no_previous_employment", "province", "year", "month", "data_type" >>
             ELSE << "municipality_code", "municipality_name", "total_contracts",
                     "men_indefinite_initial", "men_temporary_initial",
                     "men_indefinite_conversion", "women_indefinite_initial",
                     "women_temporary_initial", "women_indefinite_conversion",
                     "agriculture_sector", "industry_sector", "construction_sector",
                     "services_sector", "province", "year", "month", "data_type" >>

\* C19: for a file of the input directory whose name yields no (year, month),
\* no step of the cleaner takes its worker past the name check to the opening
\* of the workbook, its worker holds no table and no output is written for it,
\* the step that starts its worker logs a FILENAME_PARSE_ERROR event for it,
\* and the step that ends its worker leaves files_failed one above the value
\* it had before the step.
C19_BadNameFatal ==
    [][\A f \in DOMAIN inputDir : ~inputDir[f].dateOk =>
          /\ task'[f].pc \in {"none", "queued", "st_badname", "done", "collected"}
          /\ task'[f].res = NoResults
          /\ ~task'[f].truthy
          /\ \A d \in {"unemployment", "contracts"} :
                OutKey(inputDir[f], d) \notin DOMAIN outDir'
          /\ (task[f].pc = "queued" /\ task'[f].pc = "st_badname")
                => \E i \in 1..Len(errLog') :
                      /\ i > Len(errLog)
                      /\ errLog'[i] = Event("FILENAME_PARSE_ERROR", f, 0)
          /\ (task[f].pc = "st_badname" /\ task'[f].pc = "done")
                => processing_stats'["files_failed"]
                      = processing_stats["files_failed"] + 1]_vars

\* C20: no step of the cleaner removes or rewrites a line of the error log:
\* after every step each line the log held is still there, at its place.
C20_AppendOnly ==
    [][/\ Len(errLog') >= Len(errLog)
       /\ \A i \in 1..Len(errLog) : errLog'[i] = errLog[i]]_vars

\* C21: a call of the validator that flags k conditions on a table appends k
\* lines to the error log and adds k to data_quality_issues.
C21_ValidatorAccounting ==
    call.op = "validate"
       => /\ Len(call.ret.lines) = Len(call.ret.issues)
          /\ call.ret.data_quality_issues = Len(call.ret.issues)

\* C22: the validator neither changes nor rejects a table.  When a parser
\* has returned a non-empty table for a sheet, the worker stores exactly that
\* table in the file's result under the sheet's region key, directly when the
\* validator finds nothing and after the issue has been logged and counted
\* when it finds something; and a consolidated output written for the file
\* holds the non-empty tables of the result, flagged or not.
C22_Observational ==
    [][\A f \in DOMAIN inputDir :
          /\ (task[f].pc = "extract" /\ task'[f] # task[f]
                /\ SheetAt(f).parsed[task[f].start].kind = "table"
                /\ SheetAt(f).parsed[task[f].start].table.rows # <<>>)
                => IF SheetAt(f).parsed[task[f].start].issues = <<>>
                   THEN /\ task'[f].pc = "st_sp"
                        /\ task'[f].res = PutResult(task[f].res, SheetAt(f),
                                             SheetAt(f).parsed[task[f].start].table)
                   ELSE /\ task'[f].pc = "st_dqi"
                        /\ task'[f].start = task[f].start
                        /\ task'[f].i = task[f].i
          /\ (task[f].pc = "st_dqi" /\ task'[f] # task[f])
                => /\ task'[f].pc = "count"
                   /\ task'[f].start = task[f].start
                   /\ task'[f].i = task[f].i
          /\ (task[f].pc = "count" /\ task'[f] # task[f])
                => /\ task'[f].pc = "st_sp"
                   /\ task'[f].res = PutResult(task[f].res, SheetAt(f),
                                        SheetAt(f).parsed[task[f].start].table)
          /\ (task[f].pc = "done" /\ task'[f].pc = "collected")
                => \A d \in {"unemployment", "contracts"} :
                      (OutKey(inputDir[f], d) \notin DOMAIN outDir
                         /\ OutKey(inputDir[f], d) \in DOMAIN outDir')
                      => outDir'[OutKey(inputDir[f], d)] = NonEmptyTables(task[f].res[d])]_vars

\* the unemployment output of 2010_03 has been written with the table of
\* PARO SEVILLA, on which the validator flagged an outlier total
C22_Witness ==
    /\ <<2010, 3, "unemployment">> \in DOMAIN outDir
    /\ \E e \in 1..Len(outDir[<<2010, 3, "unemployment">>]) :
          \E r \in 1..Len(outDir[<<2010, 3, "unemployment">>][e].rows) :
             outDir[<<2010, 3, "unemployment">>][e].rows[r].total > HighUnemployment
    /\ \E i \in 1..Len(errLog) :
          errLog[i].kind = "DATA_QUALITY_ISSUE" /\ errLog[i].file = "f2010_03"

\* C23: an extractor called on a sheet of a year after 2012 whose grid has a
\* column count other than the width of the modern schema of its category
\* (14 for unemployment, 13 for contracts) returns an empty table.
C23_WidthMismatchEmpty ==
    (call.op = "extract" /\ call.arg.year > SplitYear
        /\ call.arg.ncols # NewWidth(call.arg.data_type))
       => (call.ret.kind = "table" /\ call.ret.rows = <<>>)

\* C24: every sheet a worker reads is first attempted with the fast reader
\* (calamine); the fallback reader is attempted on a sheet only after the
\* first attempt on that sheet has failed and the fallback has been counted,
\* which leaves engine_fallbacks one higher; and a sheet that has been handed
\* to the fallback reader is counted in sheets_failed only if that reader
\* cannot read it.
C24_ReaderOrdering ==
    [][\A f \in DOMAIN inputDir :
          /\ (task[f].pc = "sheet" /\ task'[f] # task[f]
                /\ ~SheetAt(f).special /\ SheetAt(f).data_type # "unknown")
                => task[f].engine = "calamine"
          /\ (task'[f].pc = "fallback" /\ task[f].pc # "fallback")
                => /\ task[f].pc = "st_ef"
                   /\ task'[f].i = task[f].i
                   /\ ~SheetAt(f).calamine
                   /\ processing_stats'["engine_fallbacks"]
                         = processing_stats["engine_fallbacks"] + 1
          /\ (task[f].pc = "fallback" /\ task'[f].pc = "st_sf")
                => ~SheetAt(f).xlrd]_vars

\* C25: every sheet name of a workbook that the router classifies as
\* unemployment or contracts and that is not in the exclusion list is among
\* the names the pre-filter of process_file passes on.
C25_PrefilterAgrees ==
    call.op = "prefilter"
       => \A i \in 1..Len(call.arg) :
             (call.arg[i] \notin SpecialSheets
                /\ clean_sheet_name(call.arg[i]).data_type \in {"unemployment", "contracts"})
             => \E j \in 1..Len(call.ret) : call.ret[j] = call.arg[i]

\* C26: the two extractors coerce a raw measure value to the same number:
\* whatever the numeric cleaning of one extractor returns for a value, the
\* cleaning of the other extractor returns for it too
C26_SymmetricCoercion ==
    call.op = "coerce" =>
        /\ call.ret = CoerceMeasure(call.arg.cell, "unemployment")
        /\ call.ret = CoerceMeasure(call.arg.cell, "contracts")

\* C27: in every state of a coordinator run the number of failed files is at
\* most the number of processed files
C27_FailedWithinProcessed ==
    processing_stats["files_failed"] <= processing_stats["files_processed"]

\* C28: a workbook with a dated name, a size under the ceiling and readable
\* sheets of which none passes the pre-filter is processed without error: no
\* FILE_PROCESSING_ERROR is logged for it and its worker never reaches the
\* store that increments files_failed
C28_NoRelevantSheetsNoError ==
    \A f \in DOMAIN inputDir :
        ( /\ inputDir[f].dateOk
          /\ inputDir[f].openable
          /\ inputDir[f].sizeMB <= SizeCeilingMB
          /\ inputDir[f].relevant_sheets = <<>> )
        => /\ task[f].pc # "st_ff"
           /\ \A i \in 1..Len(errLog) :
                 ~(errLog[i].kind = "FILE_PROCESSING_ERROR" /\ errLog[i].file = f)

\* C29: the step that ends a worker's handling of a routed sheet leaves exactly
\* one of three outcomes: sheets_processed one higher with the sheet's table
\* in the result; sheets_failed one higher with no table; or an EMPTY_DATA
\* line, data_quality_issues one higher and no table
C29_SheetAccounting ==
    [][\A f \in DOMAIN inputDir :
          ( /\ task[f].pc \in {"st_sp", "st_sf", "st_empty"}
            /\ task'[f] # task[f] )
          => LET sh == SheetAt(f)
                 d == task'[f].res[sh.data_type]
                 stored == \E j \in 1..Len(d) : d[j].key = sh.key
                 up(k) == processing_stats'[k] = processing_stats[k] + 1
                 A == up("sheets_processed") /\ stored
                 B == up("sheets_failed") /\ ~stored
                 C == /\ \E j \in 1..Len(errLog) :
                            errLog[j] = Event("EMPTY_DATA", f, task[f].i)
                      /\ up("data_quality_issues")
                      /\ ~stored
             IN  \/ A /\ ~B /\ ~C
                 \/ ~A /\ B /\ ~C
                 \/ ~A /\ ~B /\ C]_vars

\* C30: no table is lost within a file: when the only workbook of the
\* directory has gone through process_file, its result holds as many region
\* tables as sheets_processed counts sheets
C30_NoTableLost ==
    \A f \in DOMAIN inputDir :
        ( /\ DOMAIN inputDir = {f}
          /\ task[f].pc = "done" )
        => Len(task[f].res["unemployment"]) + Len(task[f].res["contracts"])
              = processing_stats["sheets_processed"]

====
